---- MODULE Spec2Model ----
(***************************************************************************)
(* Model of minion/plugins/basic.py: the eight blocking plugins (Alive,    *)
(* XFrameOptions, HSTS, XContentTypeOptions, XXSSProtection,               *)
(* ServerDetails, Robots, CSP) and the CSP directive parser _parse_csp.    *)
(*                                                                         *)
(* A plugin instance is constructed with a configuration and its do_run    *)
(* is invoked once by the runner.  do_run is synchronous, so each do_run   *)
(* is one action; what the network answers (the "site") is an input of     *)
(* the action.                                                             *)
(*                                                                         *)
(* Strings on which the code works structurally (URLs, CSP header values)  *)
(* are sequences of chunks; every chunk stands for the substring it        *)
(* spells.  The chunks form a prefix-free code, so two chunk sequences     *)
(* are equal exactly when the strings they spell are equal.  Strings the   *)
(* code only compares or formats are TLA+ strings.                         *)
(***************************************************************************)
EXTENDS Integers, Sequences, FiniteSets, TLC

VARIABLES
    configuration,  \* self.configuration of the plugin instance
    plugin,         \* PLUGIN_NAME of the plugin whose do_run was invoked
    site,           \* what the network answered to the one fetch of do_run
    issues,         \* every issue handed to report_issues, in order
    outcome,        \* "idle", "completed" (do_run returned), "raised"
    error,          \* type of the exception that left do_run, "" if none
    requests,       \* number of HTTP requests do_run performed
    parsed          \* return of the _parse_csp call made by do_run, if any

vars == <<configuration, plugin, site, issues, outcome, error, requests, parsed>>

\* Largest length (in chunks) of a CSP header value.
MaxLen == 5

----------------------------------------------------------------------------
(* Inputs *)

HttpUrl  == <<"http://", "site/">>
HttpsUrl == <<"https://", "site/">>
Urls     == {HttpUrl, HttpsUrl}

\* A dict is a function on its keys.
EmptyDict == [k \in {} |-> k]

Configurations ==
    {EmptyDict} \cup {[k \in {"target"} |-> u] : u \in Urls}

Statuses == {200, 204, 301, 404, 500}

NoSite == [kind |-> "none", status |-> 0, url |-> <<>>, headers |-> <<>>,
           type |-> "", detail |-> ""]

TransportFailures ==
    {[kind |-> "error", status |-> 0, url |-> <<>>, headers |-> <<>>,
      type |-> t[1], detail |-> t[2]] :
        t \in {<<"ConnectionError", "Connection refused">>,
               <<"Timeout", "Request timed out">>}}

Response(status, url, headers) ==
    [kind |-> "response", status |-> status, url |-> url,
     headers |-> headers, type |-> "", detail |-> ""]

\* Sequences without repetition over a set of header names: the header
\* lines of a response, in wire order.
RECURSIVE Arrangements(_)
Arrangements(S) ==
    {<<>>} \cup UNION {{<<x>> \o rest : rest \in Arrangements(S \ {x})} : x \in S}

WithValue(names, v) == [i \in 1..Len(names) |-> <<names[i], v>>]

\* One header line, or none, named by one of `names` with a value of `values`.
OneHeader(names, values) ==
    {<<>>} \cup {<< <<n, v>> >> : n \in names, v \in values}

----------------------------------------------------------------------------
(* The HTTP clients *)

\* str.lower() on the header names that occur.
Lower(name) ==
    CASE name = "X-Frame-Options"           -> "x-frame-options"
      [] name = "Strict-Transport-Security" -> "strict-transport-security"
      [] name = "X-Content-Type-Options"    -> "x-content-type-options"
      [] name = "X-XSS-Protection"          -> "x-xss-protection"
      [] name = "Server"                    -> "server"
      [] name = "X-Powered-By"              -> "x-powered-by"
      [] name = "X-AspNet-Version"          -> "x-aspnet-version"
      [] name = "X-AspNetMvc-Version"       -> "x-aspnetmvc-version"
      [] name = "X-Backend-Server"          -> "x-backend-server"
      [] name = "Content-Type"              -> "content-type"
      [] OTHER                              -> name

\* str.upper() on the X-Frame-Options values that occur.
Upper(value) ==
    CASE value = "deny"       -> "DENY"
      [] value = "SameOrigin" -> "SAMEORIGIN"
      [] value = "sameorigin" -> "SAMEORIGIN"
      [] value = "allowall"   -> "ALLOWALL"
      [] OTHER                -> value

\* s.startswith(prefix)
startswith(s, prefix) ==
    /\ Len(s) >= Len(prefix)
    /\ SubSeq(s, 1, Len(prefix)) = prefix

\* r.headers of requests: a case-insensitive dict, keyed here by the
\* lower-cased name.
requests_headers(r) ==
    [k \in {Lower(r.headers[i][1]) : i \in 1..Len(r.headers)} |->
        LET i == CHOOSE j \in 1..Len(r.headers) : Lower(r.headers[j][1]) = k
        IN  r.headers[i][2]]

\* `name in r.headers` and r.headers[name] on the case-insensitive dict.
has_header(r, name) == Lower(name) \in DOMAIN requests_headers(r)
header(r, name)     == requests_headers(r)[Lower(name)]

\* r.headers of minion.curly: a dict keyed by the name as received.
curly_headers(r) ==
    [k \in {r.headers[i][1] : i \in 1..Len(r.headers)} |->
        LET i == CHOOSE j \in 1..Len(r.headers) : r.headers[j][1] = k
        IN  r.headers[i][2]]

\* requests' Response.raise_for_status raises HTTPError on 4xx and 5xx.
requests_raises(r) == r.status >= 400 /\ r.status < 600

\* minion.curly's raise_for_status raises on every non-success status.
curly_raises(r) == ~(r.status >= 200 /\ r.status < 300)

\* str(e) of the HTTPError raised for a status.
StatusDetail(status) == "HTTP status " \o ToString(status)

----------------------------------------------------------------------------
(* What a do_run leaves behind *)

NotParsed == [called |-> FALSE, raised |-> FALSE, value |-> EmptyDict]

Completed(reported, n, p) ==
    [outcome |-> "completed", error |-> "", issues |-> reported,
     requests |-> n, parsed |-> p]

Raised(type, reported, n, p) ==
    [outcome |-> "raised", error |-> type, issues |-> reported,
     requests |-> n, parsed |-> p]

\* get(self.configuration['target'], ...) followed by r.raise_for_status():
\* the exception raised, if any, and the number of requests made.
Fetch(config, s, raises) ==
    IF "target" \notin DOMAIN config
    THEN [exc |-> TRUE, type |-> "KeyError", detail |-> "'target'", requests |-> 0]
    ELSE IF s.kind = "error"
    THEN [exc |-> TRUE, type |-> s.type, detail |-> s.detail, requests |-> 1]
    ELSE IF raises
    THEN [exc |-> TRUE, type |-> "HTTPError", detail |-> StatusDetail(s.status),
          requests |-> 1]
    ELSE [exc |-> FALSE, type |-> "", detail |-> "", requests |-> 1]

Issue(summary, severity) == [Summary |-> summary, Severity |-> severity]

----------------------------------------------------------------------------
(* AlivePlugin *)

AliveSites ==
    TransportFailures \cup {Response(st, HttpUrl, <<>>) : st \in Statuses}

\* Mutant: r.raise_for_status() left out.
AlivePlugin_do_run_unchecked_status(config, s) ==
    LET f == Fetch(config, s, FALSE) IN
    IF ~f.exc
    THEN Completed(<<>>, f.requests, NotParsed)
    ELSE IF "target" \notin DOMAIN config
         THEN Raised("KeyError", <<>>, f.requests, NotParsed)
         ELSE Completed(
                << [Summary  |-> "Site could not be reached",
                    Severity |-> "Error",
                    URLs     |-> << [URL |-> config["target"], Extra |-> f.detail] >>] >>,
                f.requests, NotParsed)

\* Mutant: the handler reads self.configuration.get('target').
AlivePlugin_do_run_get_target(config, s) ==
    LET f == Fetch(config, s, curly_raises(s))
        target == IF "target" \in DOMAIN config THEN config["target"] ELSE <<"None">>
    IN
    IF ~f.exc
    THEN Completed(<<>>, f.requests, NotParsed)
    ELSE Completed(
            << [Summary  |-> "Site could not be reached",
                Severity |-> "Error",
                URLs     |-> << [URL |-> target, Extra |-> f.detail] >>] >>,
            f.requests, NotParsed)

AlivePlugin_do_run(config, s) ==
    LET f == Fetch(config, s, curly_raises(s)) IN
    IF ~f.exc
    THEN Completed(<<>>, f.requests, NotParsed)
    ELSE \* except Exception as e: the handler reads configuration['target']
         IF "target" \notin DOMAIN config
         THEN Raised("KeyError", <<>>, f.requests, NotParsed)
         ELSE Completed(
                << [Summary  |-> "Site could not be reached",
                    Severity |-> "Error",
                    URLs     |-> << [URL |-> config["target"], Extra |-> f.detail] >>] >>,
                f.requests, NotParsed)

----------------------------------------------------------------------------
(* XFrameOptionsPlugin *)

XFrameOptionsSites ==
    TransportFailures \cup
    {Response(st, HttpUrl, h) :
        st \in Statuses,
        h \in OneHeader({"X-Frame-Options", "x-frame-options"},
                        {"DENY", "deny", "SAMEORIGIN", "SameOrigin", "allowall", ""})}

XFrameOptionsPlugin_do_run(config, s) ==
    LET f == Fetch(config, s, requests_raises(s)) IN
    IF f.exc THEN Raised(f.type, <<>>, f.requests, NotParsed)
    ELSE IF has_header(s, "x-frame-options")
    THEN IF Upper(header(s, "x-frame-options")) \notin {"DENY", "SAMEORIGIN"}
         THEN Completed(
                <<Issue("Site has X-Frame-Options header but it has an unknown or invalid value: "
                            \o header(s, "x-frame-options"), "High")>>,
                f.requests, NotParsed)
         ELSE Completed(<<Issue("Site has a correct X-Frame-Options header", "Info")>>,
                        f.requests, NotParsed)
    ELSE Completed(<<Issue("Site has no X-Frame-Options header set", "High")>>,
                   f.requests, NotParsed)

----------------------------------------------------------------------------
(* HSTSPlugin *)

HSTSSites ==
    TransportFailures \cup
    {Response(st, u, h) :
        st \in Statuses, u \in Urls,
        h \in OneHeader({"Strict-Transport-Security", "strict-transport-security"},
                        {"max-age=31536000", ""})}

\* Mutant: `in` for `not in`.
HSTSPlugin_do_run_inverted(config, s) ==
    LET f == Fetch(config, s, requests_raises(s)) IN
    IF f.exc THEN Raised(f.type, <<>>, f.requests, NotParsed)
    ELSE IF startswith(s.url, <<"https://">>)
    THEN IF has_header(s, "strict-transport-security")
         THEN Completed(<<Issue("Site does not set Strict-Transport-Security header", "High")>>,
                        f.requests, NotParsed)
         ELSE Completed(<<Issue("Site sets Strict-Transport-Security header", "Info")>>,
                        f.requests, NotParsed)
    ELSE Completed(<<>>, f.requests, NotParsed)

HSTSPlugin_do_run(config, s) ==
    LET f == Fetch(config, s, requests_raises(s)) IN
    IF f.exc THEN Raised(f.type, <<>>, f.requests, NotParsed)
    ELSE IF startswith(s.url, <<"https://">>)
    THEN IF ~has_header(s, "strict-transport-security")
         THEN Completed(<<Issue("Site does not set Strict-Transport-Security header", "High")>>,
                        f.requests, NotParsed)
         ELSE Completed(<<Issue("Site sets Strict-Transport-Security header", "Info")>>,
                        f.requests, NotParsed)
    ELSE Completed(<<>>, f.requests, NotParsed)

----------------------------------------------------------------------------
(* XContentTypeOptionsPlugin *)

XContentTypeOptionsSites ==
    TransportFailures \cup
    {Response(st, HttpUrl, h) :
        st \in Statuses,
        h \in OneHeader({"X-Content-Type-Options", "x-content-type-options"},
                        {"nosniff", "NoSniff", "sniff", ""})}

XContentTypeOptionsPlugin_do_run(config, s) ==
    LET f == Fetch(config, s, requests_raises(s)) IN
    IF f.exc THEN Raised(f.type, <<>>, f.requests, NotParsed)
    ELSE IF ~has_header(s, "X-Content-Type-Options")
    THEN Completed(<<Issue("Site does not set X-Content-Type-Options header", "High")>>,
                   f.requests, NotParsed)
    ELSE IF header(s, "X-Content-Type-Options") = "nosniff"
    THEN Completed(<<Issue("Site sets X-Content-Type-Options header", "Info")>>,
                   f.requests, NotParsed)
    ELSE Completed(<<Issue("Site sets an invalid X-Content-Type-Options header", "High")>>,
                   f.requests, NotParsed)

----------------------------------------------------------------------------
(* XXSSProtectionPlugin *)

XXSSProtectionValues ==
    {"1; mode=block", "0", "1", "", "1; mode=Block", "1;mode=block", "00"}

XXSSProtectionSites ==
    TransportFailures \cup
    {Response(st, HttpUrl, h) :
        st \in Statuses,
        h \in OneHeader({"X-XSS-Protection", "x-xss-protection"},
                        XXSSProtectionValues)}

\* Mutant: the branch for '0' left out.
XXSSProtectionPlugin_do_run_no_zero(config, s) ==
    LET f == Fetch(config, s, requests_raises(s)) IN
    IF f.exc THEN Raised(f.type, <<>>, f.requests, NotParsed)
    ELSE IF ~has_header(s, "X-XSS-Protection")
    THEN Completed(<<Issue("Site does not set X-XSS-Protection header", "High")>>,
                   f.requests, NotParsed)
    ELSE IF header(s, "X-XSS-Protection") = "1; mode=block"
    THEN Completed(<<Issue("Site sets X-XSS-Protection header", "Info")>>,
                   f.requests, NotParsed)
    ELSE Completed(
            <<Issue("Site sets an invalid X-XSS-Protection header: "
                        \o header(s, "X-XSS-Protection"), "High")>>,
            f.requests, NotParsed)

XXSSProtectionPlugin_do_run(config, s) ==
    LET f == Fetch(config, s, requests_raises(s)) IN
    IF f.exc THEN Raised(f.type, <<>>, f.requests, NotParsed)
    ELSE IF ~has_header(s, "X-XSS-Protection")
    THEN Completed(<<Issue("Site does not set X-XSS-Protection header", "High")>>,
                   f.requests, NotParsed)
    ELSE IF header(s, "X-XSS-Protection") = "1; mode=block"
    THEN Completed(<<Issue("Site sets X-XSS-Protection header", "Info")>>,
                   f.requests, NotParsed)
    ELSE IF header(s, "X-XSS-Protection") = "0"
    THEN Completed(
            <<Issue("Site sets X-XSS-Protection header to disable the XSS filter", "High")>>,
            f.requests, NotParsed)
    ELSE Completed(
            <<Issue("Site sets an invalid X-XSS-Protection header: "
                        \o header(s, "X-XSS-Protection"), "High")>>,
            f.requests, NotParsed)

----------------------------------------------------------------------------
(* ServerDetailsPlugin *)

HEADERS ==
    <<"Server", "X-Powered-By", "X-AspNet-Version", "X-AspNetMvc-Version",
      "X-Backend-Server">>

ServerDetailsSites ==
    TransportFailures \cup
    {Response(st, HttpUrl, WithValue(names, "v")) :
        st \in {200, 301, 404},
        names \in Arrangements({HEADERS[i] : i \in 1..Len(HEADERS)})}
    \cup
    {Response(200, HttpUrl, h) :
        h \in { << <<"Content-Type", "text/html">> >>,
                << <<"server", "v">>, <<"Content-Type", "text/html">> >>,
                << <<"x-powered-by", "v">>, <<"server", "v">> >> }}

\* Mutant: the loop ends at the first header found.
RECURSIVE server_details_loop_break(_, _, _)
server_details_loop_break(s, i, reported) ==
    IF i > Len(HEADERS) THEN reported
    ELSE IF has_header(s, HEADERS[i])
    THEN Append(reported, Issue("Site sets the '" \o HEADERS[i] \o "' header", "Medium"))
    ELSE server_details_loop_break(s, i + 1, reported)

\* for header in HEADERS: if header in r.headers: report_issues([...])
RECURSIVE server_details_loop(_, _, _)
server_details_loop(s, i, reported) ==
    IF i > Len(HEADERS) THEN reported
    ELSE server_details_loop(s, i + 1,
            IF has_header(s, HEADERS[i])
            THEN Append(reported,
                        Issue("Site sets the '" \o HEADERS[i] \o "' header", "Medium"))
            ELSE reported)

ServerDetailsPlugin_do_run(config, s) ==
    LET f == Fetch(config, s, requests_raises(s)) IN
    IF f.exc THEN Raised(f.type, <<>>, f.requests, NotParsed)
    ELSE Completed(server_details_loop(s, 1, <<>>), f.requests, NotParsed)

----------------------------------------------------------------------------
(* RobotsPlugin *)

RobotsSites ==
    TransportFailures \cup {Response(st, HttpUrl, <<>>) : st \in Statuses}

RobotsPlugin_do_run(config, s) ==
    \* no raise_for_status here
    LET f == Fetch(config, s, FALSE) IN
    IF f.exc THEN Raised(f.type, <<>>, f.requests, NotParsed)
    ELSE IF s.status # 200
    THEN Completed(<<Issue("No robots.txt found", "Medium")>>, f.requests, NotParsed)
    ELSE Completed(<<>>, f.requests, NotParsed)

----------------------------------------------------------------------------
(* CSPPlugin *)

IsSpace(c) == c = " "

\* Position of the first chunk at or after i that \s* does not consume.
RECURSIVE skip_whitespace(_, _)
skip_whitespace(s, i) ==
    IF i <= Len(s) /\ IsSpace(s[i]) THEN skip_whitespace(s, i + 1) ELSE i

\* re.compile(r';\s*').split(s), continued at position i with `piece`
\* collected since the last separator: every piece, empty ones included.
RECURSIVE re_split(_, _, _)
re_split(s, i, piece) ==
    IF i > Len(s) THEN <<piece>>
    ELSE IF s[i] = ";"
    THEN <<piece>> \o re_split(s, skip_whitespace(s, i + 1), <<>>)
    ELSE re_split(s, i + 1, Append(piece, s[i]))

\* str.split() without arguments, continued at position i with `word`
\* collected since the last whitespace: the non-empty words only.
RECURSIVE str_split(_, _, _)
str_split(s, i, word) ==
    LET done == IF word = <<>> THEN <<>> ELSE <<word>> IN
    IF i > Len(s) THEN done
    ELSE IF IsSpace(s[i]) THEN done \o str_split(s, i + 1, <<>>)
    ELSE str_split(s, i + 1, Append(word, s[i]))

\* Mutant: options[key] = values.
defaultdict_assign(options, key, values) ==
    [k \in DOMAIN options \cup {key} |-> IF k = key THEN values ELSE options[k]]

\* options[key] += values on a collections.defaultdict(list)
defaultdict_iadd(options, key, values) ==
    [k \in DOMAIN options \cup {key} |->
        IF k = key
        THEN (IF key \in DOMAIN options THEN options[key] ELSE <<>>) \o values
        ELSE options[k]]

\* for rule in p.split(csp): a = rule.split(); options[a[0]] += a[1:]
\* a[0] raises IndexError when the rule has no word.
RECURSIVE parse_rules(_, _, _)
parse_rules(rules, i, options) ==
    IF i > Len(rules)
    THEN [called |-> TRUE, raised |-> FALSE, value |-> options]
    ELSE LET a == str_split(rules[i], 1, <<>>) IN
         IF a = <<>>
         THEN [called |-> TRUE, raised |-> TRUE, value |-> EmptyDict]
         ELSE parse_rules(rules, i + 1, defaultdict_iadd(options, a[1], Tail(a)))

_parse_csp(csp) == parse_rules(re_split(csp, 1, <<>>), 1, EmptyDict)

\* csp_config[key] on the defaultdict: a missing key reads as the empty list.
defaultdict_get(options, key) ==
    IF key \in DOMAIN options THEN options[key] ELSE <<>>

\* x in list
contains(list, x) == \E i \in 1..Len(list) : list[i] = x

\* Mutant: `elif` for the second `if`.
csp_rules_issues_elif(csp_config) ==
    IF contains(defaultdict_get(csp_config, <<"options">>), <<"eval-script">>)
    THEN <<Issue("CSP Rules allow eval-script", "High")>>
    ELSE IF contains(defaultdict_get(csp_config, <<"options">>), <<"inline-script">>)
    THEN <<Issue("CSP Rules allow inline-script", "High")>>
    ELSE <<>>

\* if 'eval-script' in csp_config['options']: report_issues([...])
\* if 'inline-script' in csp_config['options']: report_issues([...])
csp_rules_issues(csp_config) ==
    (IF contains(defaultdict_get(csp_config, <<"options">>), <<"eval-script">>)
     THEN <<Issue("CSP Rules allow eval-script", "High")>> ELSE <<>>)
    \o
    (IF contains(defaultdict_get(csp_config, <<"options">>), <<"inline-script">>)
     THEN <<Issue("CSP Rules allow inline-script", "High")>> ELSE <<>>)

CSPPlugin_do_run(config, s) ==
    LET f == Fetch(config, s, curly_raises(s))
        h == curly_headers(s)
    IN
    IF f.exc THEN Raised(f.type, <<>>, f.requests, NotParsed)
    ELSE IF /\ "x-xontent-security-policy" \in DOMAIN h
            /\ "x-content-security-policy-report-only" \in DOMAIN h
    THEN Completed(
            <<Issue("Both X-Content-Security-Policy and X-Content-Security-Policy-Report-Only headers set",
                    "High")>>,
            f.requests, NotParsed)
    ELSE IF "x-content-security-policy-report-only" \in DOMAIN h
    THEN Completed(<<Issue("X-Content-Security-Policy-Report-Only header set", "High")>>,
                   f.requests, NotParsed)
    ELSE IF "x-content-security-policy" \notin DOMAIN h
    THEN Completed(<<Issue("No X-Content-Security-Policy header set", "High")>>,
                   f.requests, NotParsed)
    ELSE LET csp_config == _parse_csp(h["x-content-security-policy"]) IN
         IF csp_config.raised
         THEN Raised("IndexError", <<>>, f.requests, csp_config)
         ELSE IF DOMAIN csp_config.value = {}
         THEN Completed(<<Issue("Malformed X-Content-Security-Policy header set", "High")>>,
                        f.requests, csp_config)
         ELSE Completed(csp_rules_issues(csp_config.value), f.requests, csp_config)

\* CSP header values: every string of at most MaxLen chunks, and the
\* longer ones that spell at most MaxClauses directives of at most
\* MaxValues values each.
MaxClauses == 2
MaxValues  == 1

CspChunks == {";", " ", "options", "eval-script", "inline-script"}

RECURSIVE Strings(_, _)
Strings(S, n) ==
    IF n = 0 THEN {<<>>}
    ELSE Strings(S, n - 1) \cup
         {Append(x, c) : x \in {y \in Strings(S, n - 1) : Len(y) = n - 1}, c \in S}

RECURSIVE Join(_, _)
Join(parts, sep) ==
    IF parts = <<>> THEN <<>>
    ELSE IF Len(parts) = 1 THEN parts[1]
    ELSE parts[1] \o sep \o Join(Tail(parts), sep)

DirectiveTexts ==
    {<<n>> \o Join([i \in 1..(Len(vs) + 1) |-> IF i = 1 THEN <<>> ELSE <<vs[i - 1]>>], <<" ">>) :
        n \in {"options", "default-src"},
        vs \in Strings({"eval-script", "inline-script"}, MaxValues)}

PolicyTexts ==
    {Join(ds, sep) :
        ds \in Strings(DirectiveTexts, MaxClauses) \ {<<>>},
        sep \in {<<";">>, <<";", " ">>}}

CspValues == Strings(CspChunks, MaxLen) \cup PolicyTexts

CSPSites ==
    TransportFailures
    \cup {Response(st, HttpUrl, <<>>) : st \in Statuses}
    \cup {Response(200, HttpUrl, << <<"x-content-security-policy", v>> >>) : v \in CspValues}
    \cup {Response(st, HttpUrl, hs \o more) :
            st \in {200, 204},
            hs \in {<<>>} \cup
                   { << <<"x-content-security-policy", v>> >> :
                        v \in {<<>>, <<"default-src">>, <<"options", " ", "eval-script">>} },
            more \in { << <<"x-content-security-policy-report-only", <<"default-src">> >> >>,
                       << <<"x-xontent-security-policy", <<"default-src">> >> >>,
                       << <<"x-content-security-policy-report-only", <<"default-src">> >>,
                          <<"x-xontent-security-policy", <<"default-src">> >> >> }}

----------------------------------------------------------------------------
(* The runner invokes do_run of one plugin instance, once: every action is  *)
(* enabled only while the instance is idle.                                *)

Init ==
    /\ configuration \in Configurations
    /\ plugin = ""
    /\ site = NoSite
    /\ issues = <<>>
    /\ outcome = "idle"
    /\ error = ""
    /\ requests = 0
    /\ parsed = NotParsed

Run(name, s, result) ==
    /\ plugin' = name
    /\ site' = IF result.requests > 0 THEN s ELSE NoSite
    /\ issues' = result.issues
    /\ outcome' = result.outcome
    /\ error' = result.error
    /\ requests' = result.requests
    /\ parsed' = result.parsed
    /\ UNCHANGED configuration

AliveRun ==
    /\ outcome = "idle"
    /\ \E s \in AliveSites :
        Run("Alive", s, AlivePlugin_do_run(configuration, s))

XFrameOptionsRun ==
    /\ outcome = "idle"
    /\ \E s \in XFrameOptionsSites :
        Run("XFrameOptions", s, XFrameOptionsPlugin_do_run(configuration, s))

HSTSRun ==
    /\ outcome = "idle"
    /\ \E s \in HSTSSites :
        Run("HSTS", s, HSTSPlugin_do_run(configuration, s))

XContentTypeOptionsRun ==
    /\ outcome = "idle"
    /\ \E s \in XContentTypeOptionsSites :
        Run("XContentTypeOptions", s, XContentTypeOptionsPlugin_do_run(configuration, s))

XXSSProtectionRun ==
    /\ outcome = "idle"
    /\ \E s \in XXSSProtectionSites :
        Run("XXSSProtection", s, XXSSProtectionPlugin_do_run(configuration, s))

ServerDetailsRun ==
    /\ outcome = "idle"
    /\ \E s \in ServerDetailsSites :
        Run("ServerDetails", s, ServerDetailsPlugin_do_run(configuration, s))

RobotsRun ==
    /\ outcome = "idle"
    /\ \E s \in RobotsSites :
        Run("Robots", s, RobotsPlugin_do_run(configuration, s))

CSPRun ==
    /\ outcome = "idle"
    /\ \E s \in CSPSites :
        Run("CSP", s, CSPPlugin_do_run(configuration, s))

Next ==
    \/ AliveRun
    \/ XFrameOptionsRun
    \/ HSTSRun
    \/ XContentTypeOptionsRun
    \/ XXSSProtectionRun
    \/ ServerDetailsRun
    \/ RobotsRun
    \/ CSPRun

Spec == Init /\ [][Next]_vars

----------------------------------------------------------------------------
(* Properties *)

FullName       == "x-content-security-policy"
ReportOnlyName == "x-content-security-policy-report-only"

Ran(name) == plugin = name /\ outcome # "idle"

\* The fetch was answered with a status in the 2xx range.
Success == site.kind = "response" /\ site.status >= 200 /\ site.status < 300

\* The response carries a header line with exactly this name.
Carries(name) == \E i \in 1..Len(site.headers) : site.headers[i][1] = name

\* The response carries the header, whatever the case of its name.
Sends(name) == \E i \in 1..Len(site.headers) : Lower(site.headers[i][1]) = Lower(name)

SentValue(name) ==
    site.headers[CHOOSE i \in 1..Len(site.headers) :
                    Lower(site.headers[i][1]) = Lower(name)][2]

OnlyFullHeader == Carries(FullName) /\ ~Carries(ReportOnlyName)

OneIssue(severity) ==
    /\ outcome = "completed"
    /\ Len(issues) = 1
    /\ issues[1].Severity = severity

(* The directive mapping of a header value, read off the positions of its  *)
(* chunks: a word is a maximal run of chunks that are neither ";" nor      *)
(* whitespace, the clause of a word is the number of ";" before it, the    *)
(* first word of a clause is its name and the others are its values.       *)
IsWordChunk(c) == c # ";" /\ ~IsSpace(c)

WordStarts(s) ==
    {i \in 1..Len(s) : IsWordChunk(s[i]) /\ (i = 1 \/ ~IsWordChunk(s[i - 1]))}

WordAt(s, i) ==
    SubSeq(s, i, CHOOSE j \in i..Len(s) :
                    /\ \A k \in i..j : IsWordChunk(s[k])
                    /\ (j = Len(s) \/ ~IsWordChunk(s[j + 1])))

ClauseOf(s, i) == Cardinality({k \in 1..i : s[k] = ";"})

Clauses(s) == 0..Cardinality({k \in 1..Len(s) : s[k] = ";"})

WordsOf(s, c) == {i \in WordStarts(s) : ClauseOf(s, i) = c}

AllClausesNonEmpty(s) == \A c \in Clauses(s) : WordsOf(s, c) # {}

NamePosition(s, c) == CHOOSE i \in WordsOf(s, c) : \A j \in WordsOf(s, c) : i <= j

NameOf(s, c) == WordAt(s, NamePosition(s, c))

ValuePositions(s, name) ==
    {i \in WordStarts(s) :
        /\ i # NamePosition(s, ClauseOf(s, i))
        /\ NameOf(s, ClauseOf(s, i)) = name}

DirectiveMapping(s) ==
    [name \in {NameOf(s, c) : c \in {d \in Clauses(s) : WordsOf(s, d) # {}}} |->
        LET P == ValuePositions(s, name) IN
        [k \in 1..Cardinality(P) |->
            WordAt(s, CHOOSE p \in P : Cardinality({q \in P : q <= p}) = k)]]

\* C1: on a 2xx response carrying both the full and the report-only CSP
\* header, the CSP check emits exactly the one High "both headers set"
\* issue and stops without parsing.
C1_BothHeadersSet ==
    (Ran("CSP") /\ Success /\ Carries(FullName) /\ Carries(ReportOnlyName))
    => /\ outcome = "completed"
       /\ issues = <<Issue("Both X-Content-Security-Policy and X-Content-Security-Policy-Report-Only headers set",
                           "High")>>
       /\ ~parsed.called

\* C2: _parse_csp never raises, and returns the directive mapping of the
\* header value in which a clause without words contributes nothing.
C2_ParserTotal ==
    (Ran("CSP") /\ parsed.called)
    => /\ ~parsed.raised
       /\ parsed.value = DirectiveMapping(SentValue(FullName))

\* C3: on a 2xx response carrying only the full CSP header with the empty
\* string as its value, the parser returns the empty mapping and the check
\* completes with exactly the one High "malformed header" issue.
C3_EmptyHeaderMalformed ==
    (Ran("CSP") /\ Success /\ OnlyFullHeader /\ SentValue(FullName) = <<>>)
    => /\ parsed = [called |-> TRUE, raised |-> FALSE, value |-> EmptyDict]
       /\ outcome = "completed"
       /\ issues = <<Issue("Malformed X-Content-Security-Policy header set", "High")>>

C5_MissingTargetFatal ==
    [][ "target" \notin DOMAIN configuration
        => /\ outcome' = "raised"
           /\ error' = "KeyError"
           /\ issues' = <<>>
           /\ requests' = 0
           /\ configuration' = configuration ]_vars

C5_Witness ==
    /\ Ran("Alive")
    /\ "target" \notin DOMAIN configuration
    /\ outcome = "raised"

\* C6: for a header value all of whose clauses have a word, _parse_csp
\* returns the mapping with one key per distinct directive name whose
\* value is the concatenation, in clause and word order, of the values of
\* every clause of that name.
C6_ParserAccumulates ==
    (Ran("CSP") /\ parsed.called /\ AllClausesNonEmpty(SentValue(FullName)))
    => /\ ~parsed.raised
       /\ parsed.value = DirectiveMapping(SentValue(FullName))

C6_Witness ==
    /\ Ran("CSP")
    /\ parsed.called
    /\ SentValue(FullName) =
         <<"options", " ", "eval-script", ";", " ", "options", " ", "inline-script">>
    /\ parsed.value = [name \in {<<"options">>} |->
                         << <<"eval-script">>, <<"inline-script">> >>]

\* C7: on a 2xx response lacking the check's header, each of the
\* X-Frame-Options, X-Content-Type-Options and X-XSS-Protection checks
\* emits exactly one issue, of severity High; so does the HSTS check when
\* the final URL is https and Strict-Transport-Security is lacking.
C7_AbsentHeaderHigh ==
    /\ (Ran("XFrameOptions") /\ Success /\ ~Sends("X-Frame-Options"))
       => OneIssue("High")
    /\ (Ran("XContentTypeOptions") /\ Success /\ ~Sends("X-Content-Type-Options"))
       => OneIssue("High")
    /\ (Ran("XXSSProtection") /\ Success /\ ~Sends("X-XSS-Protection"))
       => OneIssue("High")
    /\ (/\ Ran("HSTS") /\ Success /\ ~Sends("Strict-Transport-Security")
        /\ startswith(site.url, <<"https://">>))
       => OneIssue("High")

C7_Witness ==
    /\ Ran("HSTS")
    /\ Success
    /\ site.url = HttpsUrl
    /\ ~Sends("Strict-Transport-Security")
    /\ Len(issues) = 1

\* C8: on a 2xx response carrying X-XSS-Protection the check emits exactly
\* one issue: Info for "1; mode=block", the High "filter disabled" issue
\* for "0" (its summary not the one of the absent header), and for every
\* other value a High issue whose summary ends with the raw value.
C8_XXSSProtectionValues ==
    (Ran("XXSSProtection") /\ Success /\ Sends("X-XSS-Protection"))
    => LET v == SentValue("X-XSS-Protection")
           absent == XXSSProtectionPlugin_do_run(configuration,
                                                 Response(200, HttpUrl, <<>>)).issues
       IN
       /\ outcome = "completed"
       /\ Len(issues) = 1
       /\ v = "1; mode=block" => issues[1].Severity = "Info"
       /\ v = "0" =>
            /\ issues[1] = Issue("Site sets X-XSS-Protection header to disable the XSS filter",
                                 "High")
            /\ issues[1].Summary # absent[1].Summary
       /\ v \notin {"1; mode=block", "0"} =>
            issues[1] = Issue("Site sets an invalid X-XSS-Protection header: " \o v, "High")

C8_Witness ==
    /\ Ran("XXSSProtection")
    /\ Success
    /\ Sends("X-XSS-Protection")
    /\ SentValue("X-XSS-Protection") = "0"
    /\ Len(issues) = 1

\* C9: on a 2xx response the Server-Details check emits, in the order of
\* the fixed list, one Medium issue for each listed header the response
\* carries and nothing else, wherever the headers stand in the response.
C9_ServerDetails ==
    (Ran("ServerDetails") /\ Success)
    => LET Sent(h) == Sends(h)
           found == SelectSeq(HEADERS, Sent)
       IN
       /\ outcome = "completed"
       /\ issues = [i \in 1..Len(found) |->
                       Issue("Site sets the '" \o found[i] \o "' header", "Medium")]

C9_Witness ==
    /\ Ran("ServerDetails")
    /\ Success
    /\ site.headers = << <<"X-Powered-By", "v">>, <<"Server", "v">> >>
    /\ Len(issues) = 2

\* C10: on a 2xx response carrying only the full CSP header, parsed to a
\* non-empty mapping, the check emits the High eval-script issue exactly
\* when the values of `options` contain eval-script, then the High
\* inline-script issue exactly when they contain inline-script, and
\* nothing else.
C10_OptionsIssues ==
    (/\ Ran("CSP") /\ Success /\ OnlyFullHeader
     /\ parsed.called /\ ~parsed.raised /\ DOMAIN parsed.value # {})
    => LET m == DirectiveMapping(SentValue(FullName))
           Allows(token) ==
               /\ <<"options">> \in DOMAIN m
               /\ \E i \in 1..Len(m[<<"options">>]) : m[<<"options">>][i] = <<token>>
       IN
       /\ outcome = "completed"
       /\ issues =
            (IF Allows("eval-script")
             THEN <<Issue("CSP Rules allow eval-script", "High")>> ELSE <<>>)
            \o
            (IF Allows("inline-script")
             THEN <<Issue("CSP Rules allow inline-script", "High")>> ELSE <<>>)

C10_Witness ==
    /\ Ran("CSP")
    /\ Success
    /\ OnlyFullHeader
    /\ SentValue(FullName) = <<"options", " ", "eval-script", " ", "inline-script">>
    /\ Len(issues) = 2

====
